---- MODULE Spec2Model ----
(***************************************************************************)
(* State-machine model of the SGX downloader: date_utils.py (weekday and  *)
(* URL-identifier arithmetic), download_utils.py (fetch, extract/upload,  *)
(* the per-date and date-range orchestrators) and the dispatch in main.py.*)
(*                                                                         *)
(* A datetime is an integer: ordinal day * TicksPerDay + time of day, so  *)
(* a parsed date (midnight) and datetime.today() (any time of the day)    *)
(* compare as they do in Python.                                          *)
(***************************************************************************)
EXTENDS Integers, Sequences, FiniteSets, TLC

VARIABLES mode, today, argDate, argStart, argEnd, file_types,
          pc, caller, date, idx, success, current_date, end_date,
          rangeArgs, visited, units, requested, missed_files,
          file_rets, ret, error, probe

vars == <<mode, today, argDate, argStart, argEnd, file_types,
          pc, caller, date, idx, success, current_date, end_date,
          rangeArgs, visited, units, requested, missed_files,
          file_rets, ret, error, probe>>

(* ------------------------------ bounds -------------------------------- *)
\* resolution of the time of day: instants per calendar day
TicksPerDay == 2
\* calendar days before / after the anchor date that a run may name
DaysBefore == 2
DaysAfter == 4
\* calendar days before / after the anchor that get_url_id is probed on
ProbeBefore == 8
ProbeAfter == 8
\* largest number of file members of a downloaded archive
MaxMembers == 2

(* --------------------------- config.py -------------------------------- *)
\* date(2025, 3, 14).toordinal(), a Friday
BASE_ORD == 739324
BASE_DATE == BASE_ORD * TicksPerDay
BASE_URL_ID == 5898
FILE_TYPES == <<"WEBPXTICK_DT.zip">>
GCS_DESTINATION_PATH == <<"sgx-data">>

(* --------------------------- datetime --------------------------------- *)
timedelta(days) == days * TicksPerDay
ordinal(d) == d \div TicksPerDay
\* datetime.weekday(): Monday is 0, Sunday is 6 (ordinal 1 is a Monday)
weekday(d) == (ordinal(d) + 6) % 7
midnight(ord) == ord * TicksPerDay

(* --------------------------- date_utils.py ---------------------------- *)
is_weekday_sat(d) == weekday(d) < 6
is_weekday(d) == weekday(d) < 5

RECURSIVE walk_back_to_weekday(_)
walk_back_to_weekday(cur) ==
    IF ~is_weekday(cur) THEN walk_back_to_weekday(cur - timedelta(1)) ELSE cur

get_last_weekday(d) == walk_back_to_weekday(d - timedelta(1))

RECURSIVE count_forward(_, _, _)
count_forward(cur, d, delta) ==
    IF cur <= d
    THEN count_forward(cur + timedelta(1), d,
                       IF is_weekday(cur) THEN delta + 1 ELSE delta)
    ELSE delta

RECURSIVE count_backward(_, _, _)
count_backward(cur, d, delta) ==
    IF cur >= d
    THEN count_backward(cur - timedelta(1), d,
                        IF is_weekday(cur) THEN delta - 1 ELSE delta)
    ELSE delta

\* the forward walk started on the anchor day itself (off by one)
get_url_id_from_base(d, base_date, base_url_id) ==
    IF d = base_date THEN base_url_id
    ELSE IF d > base_date
         THEN base_url_id + count_forward(base_date, d, 0)
         ELSE base_url_id + count_backward(base_date - timedelta(1), d, 0)

get_url_id(d, base_date, base_url_id) ==
    IF d = base_date THEN base_url_id
    ELSE IF d > base_date
         THEN base_url_id + count_forward(base_date + timedelta(1), d, 0)
         ELSE base_url_id + count_backward(base_date - timedelta(1), d, 0)

(* ------------------- the environment of one unit ----------------------- *)
\* relative paths (as path segments) of the files an archive may hold
MemberPaths == { <<"a.csv">>, <<"sub", "b.csv">>, <<"sub", "c.csv">> }
Archives == { fs \in SUBSET MemberPaths : Cardinality(fs) <= MaxMembers }

\* os.walk(temp_dir), top-down: the files of the root directory come
\* before the files of its sub-directories; the order inside one directory
\* is the file system's
WalkOrders(fs) ==
    { o \in [1..Cardinality(fs) -> fs] :
        /\ \A i, j \in 1..Cardinality(fs) : i # j => o[i] # o[j]
        /\ \A i, j \in 1..Cardinality(fs) : i < j => Len(o[i]) <= Len(o[j]) }

\* what the remote host, the local file system, the archive and the bucket
\* do during one unit:
\*   get        requests.get / raise_for_status / reading the body
\*   tmp_write  writing the body to the transient file
\*   log_write  appending to missed_files.txt
\*   zip        opening and extracting the archive
\*   files      the files the archive extracts to, order: os.walk's order
\*   upload_fail  0, or the position in order of the upload that raises
EnvRec(g, t, l, z, fs, o, k) ==
    [get |-> g, tmp_write |-> t, log_write |-> l, zip |-> z,
     files |-> fs, order |-> o, upload_fail |-> k]

Envs ==
    { EnvRec("error", "ok", l, "ok", {}, <<>>, 0) : l \in {"ok", "oserror"} }
    \cup { EnvRec("ok", "oserror", "ok", "ok", {}, <<>>, 0) }
    \cup { EnvRec("ok", "ok", "ok", z, {}, <<>>, 0) : z \in {"badzip", "error"} }
    \cup UNION { UNION { { EnvRec("ok", "ok", "ok", "ok", fs, o, k) :
                             k \in 0..Cardinality(fs) } :
                         o \in WalkOrders(fs) } :
                 fs \in Archives }

(* ------------------------- download_utils.py --------------------------- *)
\* the names bound in the module's namespace: its imports and its own
\* definitions
module_names ==
    { "os", "requests", "zipfile", "shutil", "datetime", "storage",
      "logging", "tempfile", "get_url_id", "is_weekday", "get_last_weekday",
      "logger", "generate_filename", "download_file_to_temp",
      "unzip_and_upload_to_gcs", "download_single_file",
      "download_files_for_date", "download_date_range", "download_auto" }

Url(url_id, file_type) == [url_id |-> url_id, file_type |-> file_type]

\* ret is "True", "False" or "raise" (an exception leaves the function);
\* logged: a line was appended to missed_files.txt
download_file_to_temp(env) ==
    IF env.get = "ok"
    THEN IF env.tmp_write = "ok"
         THEN [ret |-> "True", logged |-> FALSE]
         ELSE [ret |-> "raise", logged |-> FALSE]
    ELSE IF env.log_write = "ok"
         THEN [ret |-> "False", logged |-> TRUE]
         ELSE [ret |-> "raise", logged |-> FALSE]

\* the extraction directory, and the paths the upload loop computes
temp_dir == <<"tmp", "tmpdir">>
path_join(a, b) == a \o b
relpath_basename(path, start) == <<path[Len(path)]>>
relpath(path, start) == SubSeq(path, Len(start) + 1, Len(path))
gcs_filepath(gcs_destination_path, file) ==
    path_join(gcs_destination_path, relpath(path_join(temp_dir, file), temp_dir))

\* removed: os.remove(zip_filepath) was reached
unzip_and_upload_to_gcs(env, gcs_destination_path) ==
    IF env.zip # "ok"
    THEN [ret |-> "False", extracted |-> {}, uploaded |-> <<>>,
          removed |-> FALSE]
    ELSE IF env.upload_fail # 0
    THEN [ret |-> "False", extracted |-> env.files,
          uploaded |-> [i \in 1..(env.upload_fail - 1) |->
                           gcs_filepath(gcs_destination_path, env.order[i])],
          removed |-> FALSE]
    ELSE [ret |-> "True", extracted |-> env.files,
          uploaded |-> [i \in 1..Len(env.order) |->
                           gcs_filepath(gcs_destination_path, env.order[i])],
          removed |-> TRUE]

\* one (date, file type) unit; archive_exists: the transient file made by
\* NamedTemporaryFile(delete=False) is still on disk when the unit ends
download_single_file(d, file_type, base_date, base_url_id, gcs_destination_path, env) ==
    LET url_id == get_url_id(d, base_date, base_url_id)
        dl == download_file_to_temp(env)
        up == unzip_and_upload_to_gcs(env, gcs_destination_path)
        base == [date |-> d, file_type |-> file_type, url_id |-> url_id,
                 get |-> env.get, logged |-> dl.logged]
    IN  IF dl.ret # "True"
        THEN base @@ [ret |-> dl.ret, unzipped |-> FALSE, zip |-> "none",
                      extracted |-> {}, uploaded |-> <<>>,
                      archive_exists |-> TRUE]
        ELSE base @@ [ret |-> up.ret, unzipped |-> TRUE, zip |-> env.zip,
                      extracted |-> up.extracted, uploaded |-> up.uploaded,
                      archive_exists |-> ~up.removed]

(* ------------------------------ inputs --------------------------------- *)
Days == (BASE_ORD - DaysBefore)..(BASE_ORD + DaysAfter)
\* datetime.today(): any instant of a day of the window
Todays == { midnight(o) + t : o \in Days, t \in 0..(TicksPerDay - 1) }
\* a command-line date: <<ordinal>> for a well-formed YYYY-MM-DD, <<>> for
\* text that datetime.strptime rejects with ValueError
ArgDates == { <<o>> : o \in Days } \cup { <<>> }
strptime_ok(s) == Len(s) = 1
strptime(s) == midnight(s[1])
\* the file_types argument: the configured list, and a two-element list
FileTypeLists == { FILE_TYPES, <<"WEBPXTICK_DT.zip", "TC.txt">> }
Modes == {"date", "range", "today", "auto", "config"}

NoProbe == [base |-> BASE_DATE, d1 |-> BASE_DATE, d2 |-> BASE_DATE,
            id1 |-> BASE_URL_ID, id2 |-> BASE_URL_ID, done |-> FALSE]

Init ==
    /\ mode \in Modes
    /\ today \in Todays
    /\ argDate \in (IF mode = "date" THEN ArgDates ELSE { <<>> })
    /\ argStart \in (IF mode = "range" THEN ArgDates ELSE { <<>> })
    /\ argEnd \in (IF mode = "range" THEN ArgDates ELSE { <<>> })
    /\ file_types \in FileTypeLists
    /\ pc = "main"
    /\ caller = "none"
    /\ date = BASE_DATE
    /\ idx = 1
    /\ success = TRUE
    /\ current_date = BASE_DATE
    /\ end_date = BASE_DATE
    /\ rangeArgs = <<>>
    /\ visited = <<>>
    /\ units = <<>>
    /\ requested = <<>>
    /\ missed_files = <<>>
    /\ file_rets = <<>>
    /\ ret = "unset"
    /\ error = "none"
    /\ probe = NoProbe

(* ------------------- calls shared by the actions ----------------------- *)
\* enter download_files_for_date(d, file_types, ...) on behalf of `from`
CallFilesForDate(d, from) ==
    /\ pc' = "files"
    /\ caller' = from
    /\ date' = d
    /\ idx' = 1
    /\ success' = TRUE

\* enter download_date_range(s, e, file_types, ...)
CallDateRange(s, e) ==
    /\ pc' = "range"
    /\ current_date' = s
    /\ end_date' = e
    /\ rangeArgs' = Append(rangeArgs, <<s, e>>)

\* the process ends without calling an orchestrator
Finish(how, err) ==
    /\ pc' = how
    /\ error' = err
    /\ UNCHANGED <<caller, date, idx, success, current_date, end_date,
                   rangeArgs>>

UnitState == <<units, requested, missed_files>>
Inputs == <<mode, today, argDate, argStart, argEnd, file_types, probe>>

(* ------------------------------ main.py -------------------------------- *)
\* main(), --date D
MainDate ==
    /\ pc = "main" /\ mode = "date"
    /\ LET last_weekday == get_last_weekday(today)
       IN  IF ~strptime_ok(argDate)
           THEN Finish("exit", "SystemExit")
           ELSE IF strptime(argDate) > last_weekday
           THEN Finish("done", "none")
           ELSE IF ~is_weekday(strptime(argDate))
           THEN Finish("done", "none")
           ELSE /\ CallFilesForDate(strptime(argDate), "main")
                /\ UNCHANGED <<current_date, end_date, rangeArgs, error>>
    /\ UNCHANGED <<Inputs, UnitState, visited, file_rets, ret>>

\* main(), --range START END
MainRange ==
    /\ pc = "main" /\ mode = "range"
    /\ LET last_weekday == get_last_weekday(today)
       IN  IF ~strptime_ok(argStart) \/ ~strptime_ok(argEnd)
           THEN Finish("exit", "SystemExit")
           ELSE IF strptime(argStart) > strptime(argEnd)
           THEN Finish("exit", "SystemExit")
           ELSE /\ CallDateRange(strptime(argStart),
                                 IF strptime(argEnd) > last_weekday
                                 THEN last_weekday ELSE strptime(argEnd))
                /\ UNCHANGED <<caller, date, idx, success, error>>
    /\ UNCHANGED <<Inputs, UnitState, visited, file_rets, ret>>

\* main(), --today
MainToday ==
    /\ pc = "main" /\ mode = "today"
    /\ CallFilesForDate(get_last_weekday(today), "main")
    /\ UNCHANGED <<current_date, end_date, rangeArgs, error>>
    /\ UNCHANGED <<Inputs, UnitState, visited, file_rets, ret>>

\* main(), --auto or no flag: download_auto up to its call of
\* download_date_range
MainAuto ==
    /\ pc = "main" /\ mode = "auto"
    /\ LET last_weekday == get_last_weekday(today)
       IN  IF last_weekday < BASE_DATE
           THEN /\ Finish("done", "none")
                /\ ret' = "None"
           ELSE /\ CallDateRange(BASE_DATE, last_weekday)
                /\ UNCHANGED <<caller, date, idx, success, error, ret>>
    /\ UNCHANGED <<Inputs, UnitState, visited, file_rets>>

\* main(), --config alone
MainConfig ==
    /\ pc = "main" /\ mode = "config"
    /\ Finish("exit", "SystemExit")
    /\ UNCHANGED <<Inputs, UnitState, visited, file_rets, ret>>

(* ------------------ download_utils.py: orchestrators ------------------- *)
BoolStr(b) == IF b THEN "True" ELSE "False"

\* download_files_for_date: one iteration of `for file_type in file_types`,
\* the whole of download_single_file for that file type
DownloadSingleFile ==
    /\ pc = "files" /\ idx <= Len(file_types)
    /\ \E env \in Envs :
         LET u == download_single_file(date, file_types[idx], BASE_DATE,
                                       BASE_URL_ID, GCS_DESTINATION_PATH, env)
         IN  /\ units' = Append(units, u)
             /\ requested' = Append(requested, Url(u.url_id, u.file_type))
             /\ missed_files' = IF u.logged
                                THEN Append(missed_files,
                                            Url(u.url_id, u.file_type))
                                ELSE missed_files
             /\ IF u.ret = "raise"
                THEN /\ pc' = "raised"
                     /\ error' = "OSError"
                     /\ UNCHANGED <<idx, success>>
                ELSE /\ pc' = "files"
                     /\ error' = error
                     /\ idx' = idx + 1
                     /\ success' = (success /\ u.ret = "True")
    /\ UNCHANGED <<Inputs, caller, date, current_date, end_date, rangeArgs,
                   visited, file_rets, ret>>

\* download_files_for_date: `return success`, back in the caller
FilesReturn ==
    /\ pc = "files" /\ idx > Len(file_types)
    /\ file_rets' = Append(file_rets, success)
    /\ IF caller = "main"
       THEN pc' = "done" /\ ret' = BoolStr(success)
       ELSE pc' = "range_inc" /\ ret' = ret
    /\ UNCHANGED <<Inputs, UnitState, caller, date, idx, success,
                   current_date, end_date, rangeArgs, visited, error>>

\* download_date_range: the loop test holds, the body up to the increment
RangeStep ==
    /\ pc = "range" /\ current_date <= end_date
    /\ visited' = Append(visited, current_date)
    /\ IF is_weekday(current_date)
       THEN CallFilesForDate(current_date, "range")
       ELSE pc' = "range_inc" /\ UNCHANGED <<caller, date, idx, success>>
    /\ UNCHANGED <<Inputs, UnitState, current_date, end_date, rangeArgs,
                   file_rets, ret, error>>

\* download_date_range: `current_date += timedelta(days=1)`; the name
\* timedelta is looked up in the module's namespace
RangeInc ==
    /\ pc = "range_inc"
    /\ IF "timedelta" \in module_names
       THEN /\ current_date' = current_date + timedelta(1)
            /\ pc' = "range"
            /\ error' = error
       ELSE /\ pc' = "raised"
            /\ error' = "NameError"
            /\ current_date' = current_date
    /\ UNCHANGED <<Inputs, UnitState, caller, date, idx, success, end_date,
                   rangeArgs, visited, file_rets, ret>>

\* download_date_range: the loop test fails, the function returns None
RangeReturn ==
    /\ pc = "range" /\ current_date > end_date
    /\ pc' = "done"
    /\ ret' = "None"
    /\ UNCHANGED <<Inputs, UnitState, caller, date, idx, success,
                   current_date, end_date, rangeArgs, visited, file_rets,
                   error>>

Next ==
    \/ MainDate
    \/ MainRange
    \/ MainToday
    \/ MainAuto
    \/ MainConfig
    \/ DownloadSingleFile
    \/ FilesReturn
    \/ RangeStep
    \/ RangeInc
    \/ RangeReturn

Spec == Init /\ [][Next]_vars

(* ------------- get_url_id applied to bounded inputs -------------------- *)
ProbeDates == { midnight(o) :
                  o \in (BASE_ORD - ProbeBefore)..(BASE_ORD + ProbeAfter) }

InitId ==
    /\ probe \in { [base |-> b, d1 |-> x, d2 |-> y, id1 |-> BASE_URL_ID,
                    id2 |-> BASE_URL_ID, done |-> FALSE] :
                   b \in ProbeDates, x \in ProbeDates, y \in ProbeDates }
    /\ mode = "auto" /\ today = BASE_DATE
    /\ argDate = <<>> /\ argStart = <<>> /\ argEnd = <<>>
    /\ file_types = FILE_TYPES
    /\ pc = "probe" /\ caller = "none" /\ date = BASE_DATE /\ idx = 1
    /\ success = TRUE /\ current_date = BASE_DATE /\ end_date = BASE_DATE
    /\ rangeArgs = <<>> /\ visited = <<>> /\ units = <<>>
    /\ requested = <<>> /\ missed_files = <<>> /\ file_rets = <<>>
    /\ ret = "unset" /\ error = "none"

\* get_url_id(d1, base, BASE_URL_ID) and get_url_id(d2, base, BASE_URL_ID)
Resolve ==
    /\ pc = "probe" /\ ~probe.done
    /\ probe' = [probe EXCEPT
                   !.id1 = get_url_id(probe.d1, probe.base, BASE_URL_ID),
                   !.id2 = get_url_id(probe.d2, probe.base, BASE_URL_ID),
                   !.done = TRUE]
    /\ UNCHANGED <<mode, today, argDate, argStart, argEnd, file_types,
                   pc, caller, date, idx, success, current_date, end_date,
                   rangeArgs, visited, units, requested, missed_files,
                   file_rets, ret, error>>

NextId == Resolve

SpecId == InitId /\ [][NextId]_vars

(* ======================= properties of the code ======================== *)
\* a business day, Monday..Friday, stated on the calendar itself
BusinessDay(d) == weekday(d) \in {0, 1, 2, 3, 4}
\* the most recent business day strictly before instant t
LastBusinessDayBefore(t) ==
    LET k == CHOOSE k \in 1..7 :
               /\ BusinessDay(t - k * TicksPerDay)
               /\ \A j \in 1..(k - 1) : ~BusinessDay(t - j * TicksPerDay)
    IN  t - k * TicksPerDay
\* the number of Monday..Friday days in the half-open interval (d1, d2]
BusinessDaysIn(d1, d2) ==
    Cardinality({ o \in (ordinal(d1) + 1)..ordinal(d2) : (o + 6) % 7 < 5 })

\* the calendar days s, s + 1 day, ... that are not after e
RECURSIVE RangeDays(_, _)
RangeDays(s, e) ==
    IF s > e THEN <<>> ELSE <<s>> \o RangeDays(s + TicksPerDay, e)

\* the units of a sequence of days: every file type, for each business day
RECURSIVE UnitsFor(_)
UnitsFor(days) ==
    IF days = <<>> THEN <<>>
    ELSE (IF BusinessDay(Head(days))
          THEN [i \in 1..Len(file_types) |-> <<Head(days), file_types[i]>>]
          ELSE <<>>) \o UnitsFor(Tail(days))

\* the (date, file type) units dispatched so far, in order
Dispatched == [i \in 1..Len(units) |-> <<units[i].date, units[i].file_type>>]

UrlOf(u) == Url(u.url_id, u.file_type)
Count(seq, x) == Cardinality({ i \in 1..Len(seq) : seq[i] = x })

\* the process is over: main returned, or an exception left it
Over == pc \in {"done", "raised"}
\* no error of the local file system escaped a unit
NoUnitRaised == \A i \in 1..Len(units) : units[i].ret # "raise"

\* C1: for start <= end, download_date_range visits every calendar day of
\* [start, end] in ascending order, dispatches one unit per file type for
\* each Monday..Friday day and none for a Saturday or Sunday, and then
\* returns normally.
C1_RangeVisitsEveryDay ==
    (Over /\ rangeArgs # <<>> /\ NoUnitRaised
          /\ rangeArgs[1][1] <= rangeArgs[1][2])
    => /\ pc = "done"
       /\ visited = RangeDays(rangeArgs[1][1], rangeArgs[1][2])
       /\ Dispatched = UnitsFor(RangeDays(rangeArgs[1][1], rangeArgs[1][2]))

\* C2: in a --range run where the host is unreachable on exactly one
\* business day (and nothing else goes wrong), that day's units fail with
\* one missed-files record each, and the units of every other business day
\* of the range are dispatched and succeed.
C2_OutageDoesNotStopRange ==
    LET down == { units[i].date : i \in { j \in 1..Len(units) :
                                            units[j].get = "error" } }
    IN  (Over /\ mode = "range" /\ rangeArgs # <<>> /\ NoUnitRaised
              /\ Cardinality(down) = 1
              /\ \A i \in 1..Len(units) :
                   units[i].get = "ok" => units[i].ret = "True")
        => /\ Dispatched = UnitsFor(RangeDays(rangeArgs[1][1], rangeArgs[1][2]))
           /\ \A i \in 1..Len(units) :
                units[i].get = "error"
                => units[i].ret = "False"
                   /\ Count(missed_files, UrlOf(units[i])) = 1

C4_FailedGetLoggedOnce ==
    \A i \in 1..Len(units) :
      units[i].get = "error"
      => /\ units[i].ret = "False"
         /\ Count(missed_files, UrlOf(units[i])) = 1
         /\ Count(requested, UrlOf(units[i])) = 1

\* C5: after unzip_and_upload_to_gcs returns, the source archive no longer
\* exists locally, on every exit path.
C5_ArchiveAlwaysDeleted ==
    \A i \in 1..Len(units) :
      units[i].unzipped => ~units[i].archive_exists

\* C6: whenever unzip_and_upload_to_gcs returns success, the keys uploaded
\* during the call are exactly destination prefix + relative path of every
\* extracted member, each uploaded once.
C6_PublishedEqualsExtracted ==
    \A i \in 1..Len(units) :
      (units[i].unzipped /\ units[i].ret = "True")
      => /\ { units[i].uploaded[k] : k \in 1..Len(units[i].uploaded) }
              = { GCS_DESTINATION_PATH \o f : f \in units[i].extracted }
         /\ Len(units[i].uploaded) = Cardinality(units[i].extracted)

\* C6 witness: a unit succeeded on an archive of two members, one of them
\* in a sub-directory
C6_Witness ==
    \E i \in 1..Len(units) :
      /\ units[i].unzipped /\ units[i].ret = "True"
      /\ Cardinality(units[i].extracted) = 2
      /\ \E f \in units[i].extracted : Len(f) > 1

\* C7: no error raised inside a unit (fetching, writing the transient
\* file, writing the missed-files log, extracting, uploading) leaves the
\* orchestrator functions as an exception; each ends in a failed unit.
C7_UnitErrorsContained ==
    /\ error # "OSError"
    /\ \A i \in 1..Len(units) : units[i].ret \in {"True", "False"}

\* C8: in auto mode with end = get_last_weekday(today), nothing is
\* dispatched when end is before the anchor date, and otherwise exactly the
\* units of every business day of [anchor date, end] are dispatched.
C8_AutoCoversAnchorToEnd ==
    (Over /\ mode = "auto" /\ NoUnitRaised)
    => IF LastBusinessDayBefore(today) < BASE_DATE
       THEN units = <<>>
       ELSE Dispatched =
              UnitsFor(RangeDays(BASE_DATE, LastBusinessDayBefore(today)))

\* C9: in the per-date and the date-range entry modes alike, the
\* orchestrator returns or records an overall boolean that is true exactly
\* when every dispatched unit succeeded.
C9_OverallBoolean ==
    (Over /\ units # <<>> /\ NoUnitRaised)
    => /\ ret \in {"True", "False"}
       /\ ret = "True" <=> \A i \in 1..Len(units) : units[i].ret = "True"

\* C10 as stated: in --date D mode a fetch is attempted for D exactly when
\* D is Monday..Friday.
C10_FetchIffBusinessDay ==
    (Over /\ mode = "date" /\ strptime_ok(argDate))
    => (requested # <<>> <=> BusinessDay(strptime(argDate)))

\* C10, amended: in --date D mode a fetch is attempted for D exactly when
\* D is Monday..Friday and D is not later than the most recent business day
\* strictly before today.
C10_FetchIffPastBusinessDay ==
    (Over /\ mode = "date" /\ strptime_ok(argDate))
    => (requested # <<>>
        <=> /\ BusinessDay(strptime(argDate))
            /\ strptime(argDate) <= LastBusinessDayBefore(today))

\* C10 witness: a --date run for a past business day ended after
\* requesting that day's file
C10_Witness ==
    /\ Over /\ mode = "date" /\ strptime_ok(argDate)
    /\ BusinessDay(strptime(argDate))
    /\ requested # <<>>
    /\ requested[1].url_id = get_url_id(strptime(argDate), BASE_DATE, BASE_URL_ID)

\* C11: when the fetch of a unit fails, download_single_file leaves no
\* transient archive file on the local file system after it returns: its
\* only side effect is the one missed-files log append.
C11_NoTransientFileAfterFailedFetch ==
    \A i \in 1..Len(units) :
      (units[i].get = "error" /\ units[i].ret = "False")
      => /\ ~units[i].archive_exists
         /\ Count(missed_files, UrlOf(units[i])) = 1

====
